---- MODULE Spec2Model ----
(***************************************************************************)
(* Model of the PixPro data pipeline (src/datasets.py), the pixel          *)
(* propagation module (src/models/ppm.py) and the training loop            *)
(* (src/train.py).                                                         *)
(*                                                                         *)
(* Numbers.  Coordinates are carried in units of 1/(Size-1) pixel, so that *)
(* torch.linspace(x, x+w, Size)[k] = x + k*w/(Size-1) is the integer       *)
(* (Size-1)*x + k*w.  A value the code obtains with torch.sqrt is carried  *)
(* as its square, and a threshold is the rational <<num, den>>, den > 0;   *)
(* the comparison sqrt(a)/sqrt(b) < num/den is decided exactly.            *)
(***************************************************************************)
EXTENDS Integers, Sequences, FiniteSets, TLC

VARIABLES
    \* ---- configuration (args)
    threshold,        \* args.threshold, <<num, den>>
    gpu,              \* args.gpu
    \* ---- PixProDataset.__getitem__: its locals and its result
    dpc,              \* "idle" between accesses, "returned" after one
    p_base, p_moment, \* <<x, y, w, h>> of view 1 and view 2
    f_base, f_moment, \* flip flags of view 1 and view 2
    warp_base, warp_moment,       \* what _warp_affine returned
    base_matrix, moment_matrix,   \* the grids after the optional fliplr
    base_A_matrix, moment_A_matrix,
    \* ---- main_worker's epoch loop and train()
    tpc,              \* "main": between epochs, "loop": inside train(), "done"
    epoch,
    cursor,           \* batches the loader has yielded in this epoch (the next _iter)
    batch,            \* the random draws of the samples of the last batch yielded
    outcome,          \* of the last iteration: "none", "skipped", "stepped"
    optimizer,        \* [lr: the epoch adjust_lr scheduled, steps: optimizer.step() calls]
    losses, lr, batch_time,       \* AverageMeter update counts
    progress,         \* the _iter values progress.display showed in this epoch
    writer,           \* the global steps writer.add_scalar wrote
    checkpoints,      \* the epochs saved
    \* ---- PixelPropagationModule
    ppm_state,        \* "none", "constructed", "error" (the assert raised)
    sharpness, num_linear, transform_block,
    x, vec_sim, y     \* forward's input, similarity and result

dataVars == <<dpc, p_base, p_moment, f_base, f_moment, warp_base, warp_moment,
              base_matrix, moment_matrix, base_A_matrix, moment_A_matrix>>

trainVars == <<tpc, epoch, cursor, batch, outcome, optimizer, losses, lr,
               batch_time, progress, writer, checkpoints>>

ppmVars == <<ppm_state, sharpness, num_linear, transform_block, x, vec_sim, y>>

vars == <<threshold, gpu, dataVars, trainVars, ppmVars>>

\* ------------------------------------------------------------- bounds
MaxX == 2        \* crop offsets x in 0..MaxX
MaxW == 2        \* crop widths  w in 1..MaxW
Epochs == 2      \* args.epochs, with args.start_epoch = 0
LenLoader == 3   \* len(loader)
BatchSize == 1   \* args.batch_size
PrintFreq == 2   \* args.print_freq
MaxCells == 4    \* feature maps with B*H*W <= MaxCells
MaxC == 2        \* feature maps with C in 1..MaxC

\* ---------------------------------------------------------- constants
Size == 7            \* _warp_affine(self, p, size=7)
ConvChannels == 256  \* nn.Conv2d(256, 256, 1)

\* The full-image crop of a 256x256 source image.
FullCrop == <<0, 0, 256, 256>>

\* A crop that is taller than wide and starts below the top edge.
TallCrop == <<0, 1, 1, 2>>

\* Crop rectangles RandomResizedCrop may return: w > 0, h > 0.
Rects ==
    { <<cx, 0, cw, 1>> : cx \in 0..MaxX, cw \in 1..MaxW } \cup {TallCrop, FullCrop}

\* Values of args.threshold: -1/2, 0, the default 0.7, 0.99.
Thresholds == { <<-1, 2>>, <<0, 1>>, <<7, 10>>, <<99, 100>> }

Idx == 0..(Size - 1)
Flat == 0..(Size * Size - 1)

\* ------------------------------------------------------ exact compare
\* a/b < c/d for a, c >= 0 and b, d > 0, by the continued-fraction
\* expansion: no product is formed, so large coordinates do not overflow.
RECURSIVE LessFrac(_, _, _, _)
LessFrac(a, b, c, d) ==
    LET qa == a \div b
        qc == c \div d
        ra == a % b
        rc == c % d
    IN  IF qa < qc THEN TRUE
        ELSE IF qa > qc THEN FALSE
        ELSE IF rc = 0 THEN FALSE
        ELSE IF ra = 0 THEN TRUE
        ELSE LessFrac(d, rc, b, ra)

\* Mutant: dist_matrix <= threshold
DistLe(dsq, diagsq, thr) ==
    /\ thr[1] >= 0
    /\ ~ LessFrac(thr[1] * thr[1], thr[2] * thr[2], dsq, diagsq)

\* dist_matrix < self.args.threshold, with dist_matrix = sqrt(dsq)/sqrt(diagsq)
DistLt(dsq, diagsq, thr) ==
    /\ thr[1] > 0
    /\ LessFrac(dsq, diagsq, thr[1] * thr[1], thr[2] * thr[2])

\* ------------------------------------------------------- _warp_affine
linspace(start, extent, k) == (Size - 1) * start + k * extent

\* matrix[:, :, 0] = stack([linspace(x, x+w)]*size, 1): entry [i, j] is element i
\* matrix[:, :, 1] = stack([linspace(y, y+h)]*size, 0): entry [i, j] is element j
warp_affine(p) ==
    [i \in Idx |-> [j \in Idx |->
        [c \in 0..1 |-> IF c = 0 THEN linspace(p[1], p[3], i)
                                 ELSE linspace(p[2], p[4], j)]]]

\* torch.fliplr: reverses dimension 1
fliplr(m) == [i \in Idx |-> [j \in Idx |-> m[i][Size - 1 - j]]]

\* ------------------------------------------- _get_normalized_distance
\* Mutant: a column-major flattening
view_colmajor(m, c, p) == m[p % Size][p \div Size][c]

\* t.view(-1)[p]: row-major flattening of the Size x Size slice m[:, :, c]
view(m, c, p) == m[p \div Size][p % Size][c]

\* The result is A_matrix; diagsq is diaglen squared.  Lines 136-138 write 1
\* where dist_matrix < threshold over zeros and 0 elsewhere.
get_normalized_distance(base, moment, diagsq, thr) ==
    LET base_x_matrix(p)   == view(base, 1, p)
        base_y_matrix(p)   == view(base, 0, p)
        moment_x_matrix(q) == view(moment, 1, q)
        moment_y_matrix(q) == view(moment, 0, q)
        \* mm(b.view(-1,1), ones(1,size)) - mm(ones(size,1), m.view(1,-1))
        dist_x_matrix(p, q) == base_x_matrix(p) * 1 - 1 * moment_x_matrix(q)
        dist_y_matrix(p, q) == base_y_matrix(p) * 1 - 1 * moment_y_matrix(q)
        sq(v) == v * v
    IN  [p \in Flat |-> [q \in Flat |->
            IF DistLt(sq(dist_x_matrix(p, q)) + sq(dist_y_matrix(p, q)), diagsq, thr)
            THEN 1 ELSE 0]]

\* ------------------------------------------------------ _get_A_matrix
\* Mutant: diag_len = w1 + h1
diag_len_sq_manhattan(point) ==
    (Size - 1) * (Size - 1) * (point[3] + point[4]) * (point[3] + point[4])

\* diag_len = sqrt(w1^2 + h1^2), here squared and in grid units
diag_len_sq(point) ==
    (Size - 1) * (Size - 1) * (point[3] * point[3] + point[4] * point[4])

\* Mutant: normalizes by the other view's diagonal
get_A_matrix_other_diag(base, moment, point, other, thr) ==
    get_normalized_distance(base, moment, diag_len_sq(other), thr)

\* point is the base rectangle; other, the moment rectangle, is not read
get_A_matrix(base, moment, point, other, thr) ==
    get_normalized_distance(base, moment, diag_len_sq(point), thr)

\* -------------------------------------------------------- __getitem__
\* if f.item() > 0: matrix = torch.fliplr(matrix)
apply_flip(m, f) == IF f THEN fliplr(m) ELSE m

NoSample == <<>>

\* One dataset access: the two crops and flips are the random draws.
GetItem ==
    /\ dpc = "idle"
    /\ \E r1 \in Rects, r2 \in Rects, fl1 \in BOOLEAN, fl2 \in BOOLEAN :
         LET wb == warp_affine(r1)
             wm == warp_affine(r2)
             bm == apply_flip(wb, fl1)
             mm == apply_flip(wm, fl2)
         IN  /\ dpc' = "returned"
             /\ p_base' = r1
             /\ p_moment' = r2
             /\ f_base' = fl1
             /\ f_moment' = fl2
             /\ warp_base' = wb
             /\ warp_moment' = wm
             /\ base_matrix' = bm
             /\ moment_matrix' = mm
             /\ base_A_matrix' =
                    get_A_matrix(base_matrix', moment_matrix', p_base', p_moment', threshold)
             /\ moment_A_matrix' =
                    get_A_matrix(moment_matrix', base_matrix', p_moment', p_base', threshold)
             /\ UNCHANGED threshold

\* The caller is done with the sample; nothing of it is kept by the dataset.
Release ==
    /\ dpc = "returned"
    /\ dpc' = "idle"
    /\ p_base' = NoSample /\ p_moment' = NoSample
    /\ f_base' = FALSE /\ f_moment' = FALSE
    /\ warp_base' = NoSample /\ warp_moment' = NoSample
    /\ base_matrix' = NoSample /\ moment_matrix' = NoSample
    /\ base_A_matrix' = NoSample /\ moment_A_matrix' = NoSample
    /\ UNCHANGED threshold

DataInit ==
    /\ dpc = "idle"
    /\ p_base = NoSample /\ p_moment = NoSample
    /\ f_base = FALSE /\ f_moment = FALSE
    /\ warp_base = NoSample /\ warp_moment = NoSample
    /\ base_matrix = NoSample /\ moment_matrix = NoSample
    /\ base_A_matrix = NoSample /\ moment_A_matrix = NoSample

\* ------------------------------------------------------------ loader
\* The random draws <<crop 1, crop 2, flip 1, flip 2>> of the samples the loader
\* yields: two views of one crop, two equal crops far apart, a small crop
\* beside a large one, and the same with the views exchanged.
SameCrop       == << <<0, 0, 1, 1>>, <<0, 0, 1, 1>>, FALSE, TRUE >>
FarCrops       == << <<0, 0, 1, 1>>, <<2, 0, 1, 1>>, FALSE, FALSE >>
SmallThenLarge == << <<0, 0, 1, 1>>, <<2, 0, 2, 1>>, FALSE, FALSE >>
LargeThenSmall == << <<2, 0, 2, 1>>, <<0, 0, 1, 1>>, TRUE, FALSE >>
TrainDraws == {SameCrop, FarCrops, SmallThenLarge, LargeThenSmall}

\* What __getitem__ returns as targets for the draws d: lines 76-87.
sample_targets(d, thr) ==
    LET bm == apply_flip(warp_affine(d[1]), d[3])
        mm == apply_flip(warp_affine(d[2]), d[4])
    IN  << get_A_matrix(bm, mm, d[1], d[2], thr),
           get_A_matrix(mm, bm, d[2], d[1], thr) >>

\* The targets of every draw, built once.
LoaderTargets ==
    [t \in Thresholds |-> [d \in TrainDraws |-> sample_targets(d, t)]]

Max(S) == CHOOSE m \in S : \A n \in S : n <= m

\* torch.max of one sample's matrix, for each draw and side (1: base, 2: moment)
SampleMax ==
    [t \in Thresholds |-> [d \in TrainDraws |-> [side \in 1..2 |->
        Max({ LoaderTargets[t][d][side][p][q] : p \in Flat, q \in Flat })]]]

\* A batch is BatchSize samples; its targets are the samples' matrices stacked.
Batches == [1..BatchSize -> TrainDraws]

\* torch.max(targets[side - 1]): the largest entry of the stacked matrices
torch_max(b, side, thr) == Max({ SampleMax[thr][b[k]][side] : k \in 1..BatchSize })

\* Mutant: the update is never skipped
skip_update_never(base_max, moment_max) == base_max < 0 /\ moment_max < 0

\* if torch.max(base_A_matrix) < 1 and torch.max(moment_A_matrix) < 1: continue
skip_update(base_max, moment_max) == base_max < 1 /\ moment_max < 1

\* ------------------------------------------------------- main_worker
TrainInit ==
    /\ tpc = "main" /\ epoch = 0 /\ cursor = 0
    /\ batch = <<>> /\ outcome = "none"
    /\ optimizer = [lr |-> -1, steps |-> 0]
    /\ losses = 0 /\ lr = 0 /\ batch_time = 0
    /\ progress = {} /\ writer = {} /\ checkpoints = {}

\* for epoch in range(args.start_epoch, args.epochs): adjust_lr, then train()
\* up to its loop: fresh meters and a fresh pass over the loader.
EpochStart ==
    /\ tpc = "main" /\ epoch < Epochs
    /\ optimizer' = [optimizer EXCEPT !.lr = epoch]
    /\ batch_time' = 0 /\ losses' = 0 /\ lr' = 0
    /\ progress' = {}
    /\ cursor' = 0 /\ batch' = <<>> /\ outcome' = "none"
    /\ tpc' = "loop"
    /\ UNCHANGED <<epoch, writer, checkpoints>>

\* One iteration of train()'s loop, args.loss = 'pixpro': lines 166-206.
TrainBatch ==
    /\ tpc = "loop" /\ cursor < LenLoader
    /\ \E b \in Batches :
         LET iter == cursor
             shown == (iter % PrintFreq = 0) /\ (gpu = 0)
         IN  /\ batch' = b
             /\ cursor' = cursor + 1
             /\ IF skip_update(torch_max(b, 1, threshold), torch_max(b, 2, threshold))
                THEN /\ outcome' = "skipped"
                     /\ UNCHANGED <<optimizer, losses, lr, batch_time, progress, writer>>
                ELSE /\ outcome' = "stepped"
                     /\ losses' = losses + 1
                     /\ lr' = lr + 1
                     /\ optimizer' = [optimizer EXCEPT !.steps = @ + 1]
                     /\ batch_time' = batch_time + 1
                     /\ progress' = IF shown THEN progress \cup {iter} ELSE progress
                     /\ writer' = IF shown THEN writer \cup {epoch * LenLoader + iter}
                                           ELSE writer
    /\ UNCHANGED <<tpc, epoch, checkpoints>>

\* The loader is exhausted: train() returns and the checkpoint is saved.
EpochEnd ==
    /\ tpc = "loop" /\ cursor = LenLoader
    /\ checkpoints' = checkpoints \cup {epoch}
    /\ epoch' = epoch + 1
    /\ tpc' = "main"
    /\ UNCHANGED <<cursor, batch, outcome, optimizer, losses, lr, batch_time,
                   progress, writer>>

\* range(args.start_epoch, args.epochs) is exhausted.
Finish ==
    /\ tpc = "main" /\ epoch >= Epochs
    /\ tpc' = "done"
    /\ UNCHANGED <<epoch, cursor, batch, outcome, optimizer, losses, lr, batch_time,
                   progress, writer, checkpoints>>

\* ---------------------------------------------------------- rationals
\* A similarity or an output value is the exact rational <<num, den>> in
\* lowest terms, den > 0.
Abs(n) == IF n < 0 THEN -n ELSE n

RECURSIVE GCD(_, _)
GCD(a, b) == IF b = 0 THEN a ELSE GCD(b, a % b)

Rat(n, d) == LET g == GCD(Abs(n), d) IN << n \div g, d \div g >>
RatAdd(r, s) == Rat(r[1] * s[2] + s[1] * r[2], r[2] * s[2])
RatScale(r, k) == Rat(r[1] * k, r[2])

RECURSIVE IntPow(_, _)
IntPow(b, n) == IF n = 0 THEN 1 ELSE b * IntPow(b, n - 1)

RatPow(r, n) == Rat(IntPow(r[1], n), IntPow(r[2], n))

\* The root of a perfect square.
Sqrt(n) == CHOOSE r \in 0..n : r * r = n

\* ------------------------------------------------------ feature maps
\* The vectors a spatial position may hold, for c channels: the zero vector,
\* e1, -e1 and 3*e1 + 4*ec; their norms 0, 1, 1 and 5 (7 for c = 1) are integers.
VecKinds == 0..3
FeatVec(c, kind) ==
    [ch \in 1..c |->
        IF kind = 0 THEN 0
        ELSE IF kind = 1 THEN (IF ch = 1 THEN 1 ELSE 0)
        ELSE IF kind = 2 THEN (IF ch = 1 THEN -1 ELSE 0)
        ELSE (IF ch = 1 THEN 3 ELSE 0) + (IF ch = c THEN 4 ELSE 0)]

\* x.shape = (b, c, h, w)
Shapes ==
    { sh \in (1..MaxCells) \X (1..MaxC) \X (1..MaxCells) \X (1..MaxCells) :
        sh[1] * sh[3] * sh[4] <= MaxCells }

Positions(sh) == (1..sh[1]) \X (1..sh[3]) \X (1..sh[4])

FeatureMap(sh, pick) ==
    [shape |-> sh,
     data  |-> [bb \in 1..sh[1] |-> [ch \in 1..sh[2] |-> [i \in 1..sh[3] |->
                   [j \in 1..sh[4] |-> FeatVec(sh[2], pick[<<bb, i, j>>])[ch]]]]]]

\* ------------------------------------------- PixelPropagationModule
Sharpnesses == 1..2
NumLinears == -1..3

\* _make_transform_block: the block built, or the assertion's failure
make_transform_block(n) ==
    IF ~ (n < 3) THEN "AssertionError"
    ELSE IF n = 0 THEN "Identity"
    ELSE IF n = 1 THEN "Conv2d"
    ELSE "Sequential"

\* sum over channels 1..c of x[bb, ch, i, j] * x[bb, ch, hh, ww]
RECURSIVE Dot(_, _, _, _, _, _, _)
Dot(d, bb, i, j, hh, ww, c) ==
    IF c = 0 THEN 0
    ELSE d[bb][c][i][j] * d[bb][c][hh][ww] + Dot(d, bb, i, j, hh, ww, c - 1)

\* F.cosine_similarity(x_1, x_2, dim=1): the product of the norms is clamped
\* to eps from below, so a zero vector has similarity 0.
cosine_similarity(d, bb, i, j, hh, ww, c) ==
    LET n1 == Sqrt(Dot(d, bb, i, j, i, j, c))
        n2 == Sqrt(Dot(d, bb, hh, ww, hh, ww, c))
    IN  IF n1 * n2 = 0 THEN <<0, 1>>
        ELSE Rat(Dot(d, bb, i, j, hh, ww, c), n1 * n2)

relu(r) == IF r[1] < 0 THEN <<0, 1>> ELSE r

\* s = torch.pow(F.relu(cos), self.sharpness), indexed [bb][i][j][hh][ww]
compute_similarity(xin, sharp) ==
    LET sh == xin.shape
    IN  [bb \in 1..sh[1] |-> [i \in 1..sh[3] |-> [j \in 1..sh[4] |->
            [hh \in 1..sh[3] |-> [ww \in 1..sh[4] |->
                RatPow(relu(cosine_similarity(xin.data, bb, i, j, hh, ww, sh[2])),
                       sharp)]]]]]

\* sum over the first k positions (hh, ww), row-major, of s[hh][ww] * t[hh][ww]
RECURSIVE WeightedSum(_, _, _, _)
WeightedSum(s, t, w, k) ==
    IF k = 0 THEN <<0, 1>>
    ELSE LET hh == ((k - 1) \div w) + 1
             ww == ((k - 1) % w) + 1
         IN  RatAdd(RatScale(s[hh][ww], t[hh][ww]), WeightedSum(s, t, w, k - 1))

\* Mutant: the weights are renormalized to sum to 1 over equal weights
einsum_mean(sim, tr_x, sh) ==
    [bb \in 1..sh[1] |-> [ch \in 1..sh[2] |-> [i \in 1..sh[3] |-> [j \in 1..sh[4] |->
        LET total == WeightedSum(sim[bb][i][j], tr_x[bb][ch], sh[4], sh[3] * sh[4])
        IN  Rat(total[1], total[2] * sh[3] * sh[4])]]]]

\* torch.einsum('bijhw, bchw -> bcij', vec_sim, tr_x)
einsum(sim, tr_x, sh) ==
    [bb \in 1..sh[1] |-> [ch \in 1..sh[2] |-> [i \in 1..sh[3] |-> [j \in 1..sh[4] |->
        WeightedSum(sim[bb][i][j], tr_x[bb][ch], sh[4], sh[3] * sh[4])]]]]

\* forward's result.  nn.Identity returns x; the pointwise projections take
\* ConvChannels input channels and raise on any other count; their weights
\* are outside this model.
forward(xin, sim, block) ==
    IF block = "Identity" THEN einsum(sim, xin.data, xin.shape)
    ELSE IF xin.shape[2] # ConvChannels THEN <<"RuntimeError">>
    ELSE <<"projected">>

PpmInit ==
    /\ ppm_state = "none" /\ sharpness = 0 /\ num_linear = 0
    /\ transform_block = "none"
    /\ x = <<>> /\ vec_sim = <<>> /\ y = <<>>

\* PixelPropagationModule(sharpness, num_linear): __init__
Construct ==
    /\ ppm_state = "none"
    /\ \E s \in Sharpnesses, n \in NumLinears :
         /\ sharpness' = s
         /\ num_linear' = n
         /\ IF make_transform_block(n) = "AssertionError"
            THEN ppm_state' = "error" /\ transform_block' = "none"
            ELSE ppm_state' = "constructed" /\ transform_block' = make_transform_block(n)
    /\ UNCHANGED <<x, vec_sim, y>>

\* ppm(x): forward
Forward ==
    /\ ppm_state = "constructed" /\ y = <<>>
    /\ \E sh \in Shapes : \E pick \in [Positions(sh) -> VecKinds] :
         /\ x' = FeatureMap(sh, pick)
         /\ vec_sim' = compute_similarity(x', sharpness)
         /\ y' = forward(x', vec_sim', transform_block)
    /\ UNCHANGED <<ppm_state, sharpness, num_linear, transform_block>>

\* The feature map, the similarity and the output are dropped after the step.
Discard ==
    /\ y # <<>>
    /\ x' = <<>> /\ vec_sim' = <<>> /\ y' = <<>>
    /\ UNCHANGED <<ppm_state, sharpness, num_linear, transform_block>>

Init ==
    /\ threshold \in Thresholds
    /\ gpu = 0
    /\ DataInit /\ TrainInit /\ PpmInit

Next ==
    \/ GetItem /\ UNCHANGED <<gpu, trainVars, ppmVars>>
    \/ Release /\ UNCHANGED <<gpu, trainVars, ppmVars>>

\* The dataset: samples drawn and returned.
Spec == Init /\ [][Next]_vars

InitTrain ==
    /\ threshold \in Thresholds
    /\ gpu \in 0..1
    /\ DataInit /\ TrainInit /\ PpmInit

NextTrain ==
    \/ EpochStart /\ UNCHANGED <<threshold, gpu, dataVars, ppmVars>>
    \/ TrainBatch /\ UNCHANGED <<threshold, gpu, dataVars, ppmVars>>
    \/ EpochEnd /\ UNCHANGED <<threshold, gpu, dataVars, ppmVars>>
    \/ Finish /\ UNCHANGED <<threshold, gpu, dataVars, ppmVars>>

\* The training driver: epochs over the loader.
SpecTrain == InitTrain /\ [][NextTrain]_vars

\* ===================================================== dataset claims
Returned == dpc = "returned"

\* The grid point with row-major index p, and its two coordinates.
Point(grid, p) == grid[p \div Size][p % Size]
EuclidSq(a, b) == (a[0] - b[0]) * (a[0] - b[0]) + (a[1] - b[1]) * (a[1] - b[1])

\* EuclideanDistance(a, b) / sqrt(w^2 + h^2) < threshold, with a and b in grid units
NormDistBelow(a, b, rect, thr) ==
    /\ thr[1] > 0
    /\ LessFrac(EuclidSq(a, b),
                (Size - 1) * (Size - 1) * (rect[3] * rect[3] + rect[4] * rect[4]),
                thr[1] * thr[1], thr[2] * thr[2])

DiagSq(rect) == rect[3] * rect[3] + rect[4] * rect[4]
AllZero(A) == \A p \in Flat, q \in Flat : A[p][q] = 0
AllOne(A) == \A p \in Flat, q \in Flat : A[p][q] = 1

\* C1: base_A_matrix[p,q] = 1 exactly when the distance of grid1[p] and grid2[q]
\* over view 1's crop diagonal is below the threshold, moment_A_matrix[p,q] = 1
\* exactly when the distance of grid2[p] and grid1[q] over view 2's crop diagonal
\* is; every other entry is 0.
C1_AdjacencyByOwnDiagonal ==
    Returned =>
        \A p \in Flat, q \in Flat :
            /\ base_A_matrix[p][q] =
                 (IF NormDistBelow(Point(base_matrix, p), Point(moment_matrix, q),
                                   p_base, threshold) THEN 1 ELSE 0)
            /\ moment_A_matrix[p][q] =
                 (IF NormDistBelow(Point(moment_matrix, p), Point(base_matrix, q),
                                   p_moment, threshold) THEN 1 ELSE 0)

C1_Witness ==
    /\ Returned /\ threshold = <<7, 10>> /\ f_base /\ ~ f_moment
    /\ DiagSq(p_base) # DiagSq(p_moment)
    /\ ~ AllZero(base_A_matrix) /\ ~ AllOne(base_A_matrix)
    /\ base_A_matrix # moment_A_matrix

\* C2: the unflipped grid is grid[i,j] = (x + j*w/(size-1), y + i*h/(size-1)):
\* x varies with the column index j, y with the row index i.
C2_GridXByColumn ==
    Returned =>
        \A i \in Idx, j \in Idx :
            /\ warp_base[i][j][0] = (Size - 1) * p_base[1] + j * p_base[3]
            /\ warp_base[i][j][1] = (Size - 1) * p_base[2] + i * p_base[4]
            /\ warp_moment[i][j][0] = (Size - 1) * p_moment[1] + j * p_moment[3]
            /\ warp_moment[i][j][1] = (Size - 1) * p_moment[2] + i * p_moment[4]

\* The horizontal mirror of a grid inside the crop rect: x_new = 2x + w - x_old.
MirroredX(flipped, grid, rect) ==
    \A i \in Idx, j \in Idx :
        /\ flipped[i][j][0] = 2 * (Size - 1) * rect[1] + (Size - 1) * rect[3] - grid[i][j][0]
        /\ flipped[i][j][1] = grid[i][j][1]

\* C3: a flipped view's grid is its unflipped grid with every x-coordinate
\* reflected inside the crop and every y-coordinate unchanged; an unflipped
\* view's grid is unchanged.
C3_FlipMirrorsX ==
    Returned =>
        /\ IF f_base THEN MirroredX(base_matrix, warp_base, p_base)
                     ELSE base_matrix = warp_base
        /\ IF f_moment THEN MirroredX(moment_matrix, warp_moment, p_moment)
                       ELSE moment_matrix = warp_moment

FullImageScenario ==
    /\ Returned /\ threshold = <<99, 100>>
    /\ p_base = FullCrop /\ p_moment = FullCrop
    /\ ~ f_base /\ ~ f_moment

\* C4 as stated: in the full-image scenario both matrices are all-ones.
C4_FullImageAllOnes ==
    FullImageScenario => AllOne(base_A_matrix) /\ AllOne(moment_A_matrix)

\* The pairs of diagonally opposite corners of the grid.
Last == Size - 1
Corner(i, j) == i * Size + j
OppositeCorners ==
    { <<Corner(0, 0), Corner(Last, Last)>>, <<Corner(Last, Last), Corner(0, 0)>>,
      <<Corner(0, Last), Corner(Last, 0)>>, <<Corner(Last, 0), Corner(0, Last)>> }

\* C4 amended: in the full-image scenario an entry of either matrix is 0 exactly
\* when it pairs two diagonally opposite corners of the grid (normalized
\* distance 1 >= 0.99), and 1 otherwise.
C4_FullImageOnesButCorners ==
    FullImageScenario =>
        \A p \in Flat, q \in Flat :
            /\ base_A_matrix[p][q] = (IF <<p, q>> \in OppositeCorners THEN 0 ELSE 1)
            /\ moment_A_matrix[p][q] = (IF <<p, q>> \in OppositeCorners THEN 0 ELSE 1)

C4_Witness == FullImageScenario /\ base_A_matrix[Corner(0, 0)][Corner(0, Last)] = 1

\* C8: with threshold <= 0 both matrices of every sample are entirely zero,
\* and the access returns.
C8_NonPositiveThresholdAllZero ==
    (dpc # "idle" /\ threshold[1] <= 0) =>
        /\ Returned
        /\ AllZero(base_A_matrix) /\ AllZero(moment_A_matrix)

C8_Witness ==
    /\ Returned /\ threshold = <<0, 1>>
    /\ base_matrix = moment_matrix
    /\ AllZero(base_A_matrix)

\* C10: when the base crop diagonal is at most the moment crop diagonal,
\* base_A_matrix[p,q] = 1 implies moment_A_matrix[q,p] = 1; with equal
\* diagonals base_A_matrix is the transpose of moment_A_matrix.
C10_DirectionalByDiagonal ==
    Returned =>
        /\ DiagSq(p_base) <= DiagSq(p_moment) =>
              \A p \in Flat, q \in Flat :
                  base_A_matrix[p][q] = 1 => moment_A_matrix[q][p] = 1
        /\ DiagSq(p_base) = DiagSq(p_moment) =>
              \A p \in Flat, q \in Flat : base_A_matrix[p][q] = moment_A_matrix[q][p]

\* The diagonals differ, and one matrix is entirely zero while the other is not.
C10_Witness ==
    /\ Returned
    /\ DiagSq(p_base) < DiagSq(p_moment)
    /\ AllZero(base_A_matrix) /\ ~ AllZero(moment_A_matrix)

NextPpm ==
    \/ Construct /\ UNCHANGED <<threshold, gpu, dataVars, trainVars>>
    \/ Forward /\ UNCHANGED <<threshold, gpu, dataVars, trainVars>>
    \/ Discard /\ UNCHANGED <<threshold, gpu, dataVars, trainVars>>

InitPpm ==
    /\ threshold = <<7, 10>>
    /\ gpu = 0
    /\ DataInit /\ TrainInit /\ PpmInit

\* The propagation module: construction and forward passes.
SpecPpm == InitPpm /\ [][NextPpm]_vars

\* ==================================================== training claims
\* Whether the stacked matrix of one side of batch b is entirely zero.
SampleAllZero ==
    [t \in Thresholds |-> [d \in TrainDraws |-> [side \in 1..2 |->
        AllZero(LoaderTargets[t][d][side])]]]
BatchAllZero(b, side) == \A k \in 1..BatchSize : SampleAllZero[threshold][b[k]][side]

\* C5: for every batch in which a matrix handed to the loss is entirely zero,
\* the optimizer step is not executed.
C5_NoStepOnAnyZeroMatrix ==
    (tpc = "loop" /\ outcome = "stepped") =>
        ~ (BatchAllZero(batch, 1) \/ BatchAllZero(batch, 2))

\* C9: an iteration over a batch whose two matrices both have maximum below 1
\* leaves the optimizer, the three meters, the progress display and the
\* writer unchanged and advances the loader cursor by one; and an epoch ends
\* only when the loader has yielded exactly len(loader) batches.
C9_SkipKeepsStateConsumesBatch ==
    /\ [][ ( /\ tpc = "loop" /\ tpc' = "loop" /\ cursor' # cursor
             /\ BatchAllZero(batch', 1) /\ BatchAllZero(batch', 2) )
           => ( /\ optimizer' = optimizer
                /\ losses' = losses /\ lr' = lr /\ batch_time' = batch_time
                /\ progress' = progress /\ writer' = writer
                /\ cursor' = cursor + 1 ) ]_vars
    /\ [][ epoch' # epoch => (cursor = LenLoader /\ epoch' = epoch + 1) ]_vars

\* An epoch has ended whose last batch was skipped while an earlier one stepped.
C9_Witness ==
    /\ tpc = "main" /\ epoch = 1 /\ cursor = LenLoader
    /\ outcome = "skipped" /\ optimizer.steps > 0
    /\ BatchAllZero(batch, 1) /\ BatchAllZero(batch, 2)

\* ================================================= propagation claims
\* Within every batch element all spatial vectors are one nonzero vector.
UniformNonzero(xin) ==
    \A bb \in 1..xin.shape[1] :
        /\ \A ch \in 1..xin.shape[2], i \in 1..xin.shape[3], j \in 1..xin.shape[4] :
               xin.data[bb][ch][i][j] = xin.data[bb][ch][1][1]
        /\ \E ch \in 1..xin.shape[2] : xin.data[bb][ch][1][1] # 0

\* C6: with num_linear = 0 and sharpness = 1, on a feature map whose spatial
\* vectors within each batch element are one nonzero vector v, every
\* similarity is 1 and every output position holds H*W*v.
C6_UniformMapSumsAllVectors ==
    ( /\ ppm_state = "constructed" /\ num_linear = 0 /\ sharpness = 1
      /\ y # <<>> /\ UniformNonzero(x) )
    => \A bb \in 1..x.shape[1], i \in 1..x.shape[3], j \in 1..x.shape[4] :
          /\ \A hh \in 1..x.shape[3], ww \in 1..x.shape[4] :
                 vec_sim[bb][i][j][hh][ww] = <<1, 1>>
          /\ \A ch \in 1..x.shape[2] :
                 y[bb][ch][i][j] = << x.shape[3] * x.shape[4] * x.data[bb][ch][1][1], 1 >>

\* H = W = 2, C = 1, all inputs 1: every output value is 4.
C6_Witness ==
    /\ ppm_state = "constructed" /\ num_linear = 0 /\ sharpness = 1
    /\ y # <<>> /\ x.shape = <<1, 1, 2, 2>>
    /\ \A i \in 1..2, j \in 1..2 : x.data[1][1][i][j] = 1 /\ y[1][1][i][j] = <<4, 1>>

\* C7: construction with num_linear outside {0, 1, 2} fails and builds no
\* transform block; it succeeds for 0, 1 and 2 with the identity, one
\* projection and two projections.
C7_OnlyZeroOneTwoConstruct ==
    ppm_state # "none" =>
        IF num_linear \in {0, 1, 2}
        THEN /\ ppm_state = "constructed"
             /\ transform_block = (IF num_linear = 0 THEN "Identity"
                                   ELSE IF num_linear = 1 THEN "Conv2d"
                                   ELSE "Sequential")
        ELSE ppm_state = "error" /\ transform_block = "none"

====
